---------------------------- MODULE Spec2Model ----------------------------
(***************************************************************************)
(* CrossFit PR tracker: the SQLite store of src/db.py, the authentication  *)
(* helpers of src/auth.py and the Streamlit handlers of src/app.py.        *)
(*                                                                         *)
(* A table is the set of its rows; a row is a record of its columns.  The  *)
(* free-text columns notes and created_at are left out of the rows: no     *)
(* statement, comparison or condition of the code reads them.              *)
(* A TIMESTAMP column holds the second at which the row was written, as a  *)
(* natural number (the code stores "%Y-%m-%d %H:%M:%S", whose string order *)
(* is the order of the seconds).                                           *)
(***************************************************************************)
EXTENDS Integers, Sequences, FiniteSets, TLC

VARIABLES
    users,            \* table users
    user_seq,         \* sqlite_sequence of users (AUTOINCREMENT)
    weightlifts_prs,  \* table weightlifts_prs
    weightlift_seq,   \* sqlite_sequence of weightlifts_prs
    benchmarks_prs,   \* table benchmarks_prs
    benchmark_seq,    \* sqlite_sequence of benchmarks_prs
    now,              \* datetime.now(), in seconds
    foreign_keys,     \* whether the SQLite build enforces foreign keys
    session_state,    \* st.session_state of every browser session
    pc,               \* where the script run of every session stands
    ret,              \* what the last call into db / auth returned
    call              \* the last call into db, where a specification records it

vars == <<users, user_seq, weightlifts_prs, weightlift_seq, benchmarks_prs,
          benchmark_seq, now, foreign_keys, session_state, pc, ret, call>>

dbvars == <<users, user_seq, weightlifts_prs, weightlift_seq, benchmarks_prs,
            benchmark_seq>>

uservars == <<users, user_seq>>

weightliftvars == <<weightlifts_prs, weightlift_seq>>

benchmarkvars == <<benchmarks_prs, benchmark_seq>>

appvars == <<session_state, pc>>

NoCall == [fn |-> ""]

-----------------------------------------------------------------------------
(* Bounds of the model *)

MaxClock == 1

MaxWeightlifts == 3

MaxBenchmarks == 3

MaxRecords == 2

MaxUserId == 3

(* The bound of the specification of the whole application: the number of
   rows its three tables are given in all. *)
MaxAppRows == 3

(* Argument values *)

Sessions == {"s1", "s2"}

Roles == {"user", "coach", "admin"}

Usernames == {"admin", "ann"}

Passwords == {"admin", "pass"}

Salts == {1}

NoName == "(None)"

FullNames == {NoName, "Ann"}

WEIGHTLIFTS == {"Back Squat", "Deadlift"}

BENCHMARK_WORKOUTS == {"Fran", "Cindy"}

Units == {"lbs", "kg"}

OwnerIds == 1..2

Weights == 1..2

Minutes == 0..1

Seconds == 0..1

-----------------------------------------------------------------------------
(* Python values *)

None == [none |-> TRUE]

RetBool(b) == [ok |-> b, id |-> 0]

RetId(i) == [ok |-> TRUE, id |-> i]

RetNone == [ok |-> FALSE, id |-> 0]

EmptyDict == <<>>

-----------------------------------------------------------------------------
(* src/db.py: users *)

UsernameTaken(username) == \E u \in users : u.username = username

(* The insert into a users table whose username column is not UNIQUE. *)
create_user_not_unique(username, password_hash, role, full_name) ==
    /\ users' = users \cup {[id |-> user_seq + 1,
                             username |-> username,
                             password_hash |-> password_hash,
                             role |-> role,
                             full_name |-> full_name]}
    /\ user_seq' = user_seq + 1

(* The insert into a users table whose id is not AUTOINCREMENT: the new id
   is one more than the largest id the table holds. *)
create_user_rowid(username, password_hash, role, full_name) ==
    IF UsernameTaken(username)
    THEN UNCHANGED uservars
    ELSE LET ids == {u.id : u \in users}
             rowid == IF ids = {} THEN 1
                      ELSE 1 + (CHOOSE m \in ids : \A k \in ids : m >= k)
         IN  /\ users' = users \cup {[id |-> rowid,
                                       username |-> username,
                                       password_hash |-> password_hash,
                                       role |-> role,
                                       full_name |-> full_name]}
             /\ user_seq' = user_seq + 1

create_user(username, password_hash, role, full_name) ==
    IF UsernameTaken(username)
    THEN UNCHANGED uservars
    ELSE /\ users' = users \cup {[id |-> user_seq + 1,
                                  username |-> username,
                                  password_hash |-> password_hash,
                                  role |-> role,
                                  full_name |-> full_name]}
         /\ user_seq' = user_seq + 1

(* What create_user returns: the new row's id, or None on the IntegrityError
   of a taken username. *)
create_user_result(username) ==
    IF UsernameTaken(username) THEN RetNone ELSE RetId(user_seq + 1)

get_user_by_username(username) ==
    IF \E u \in users : u.username = username
    THEN CHOOSE u \in users : u.username = username
    ELSE None

get_user_by_id(user_id) ==
    IF \E u \in users : u.id = user_id
    THEN CHOOSE u \in users : u.id = user_id
    ELSE None

get_all_users ==
    {[id |-> u.id, username |-> u.username, role |-> u.role,
      full_name |-> u.full_name] : u \in users}

update_user_password(user_id, password_hash) ==
    /\ users' = {IF u.id = user_id
                 THEN [u EXCEPT !.password_hash = password_hash]
                 ELSE u : u \in users}
    /\ UNCHANGED user_seq

update_user_role(user_id, role) ==
    /\ users' = {IF u.id = user_id THEN [u EXCEPT !.role = role] ELSE u :
                 u \in users}
    /\ UNCHANGED user_seq

delete_user(user_id) ==
    /\ users' = {u \in users : u.id # user_id}
    /\ UNCHANGED user_seq
    /\ IF foreign_keys /\ (\E u \in users : u.id = user_id)
       THEN /\ weightlifts_prs' = {r \in weightlifts_prs : r.user_id # user_id}
            /\ benchmarks_prs' = {r \in benchmarks_prs : r.user_id # user_id}
       ELSE UNCHANGED <<weightlifts_prs, benchmarks_prs>>
    /\ UNCHANGED <<weightlift_seq, benchmark_seq>>

(* A row whose user_id names no user violates the FOREIGN KEY of the table,
   which SQLite checks only when foreign keys are enforced. *)
ForeignKeyFails(user_id) ==
    foreign_keys /\ ~(\E u \in users : u.id = user_id)

-----------------------------------------------------------------------------
(* src/db.py: weightlifts *)

(* The insert into a table declared without AUTOINCREMENT: the new id is one
   more than the greatest id stored. *)
add_weightlift_pr_rowid(user_id, movement, weight, unit) ==
    IF ForeignKeyFails(user_id)
    THEN UNCHANGED weightliftvars
    ELSE LET ids == {r.id : r \in weightlifts_prs}
             rowid == IF ids = {} THEN 1
                      ELSE 1 + (CHOOSE m \in ids : \A k \in ids : m >= k)
         IN  /\ weightlifts_prs' = weightlifts_prs \cup
                    {[id |-> rowid, user_id |-> user_id,
                      movement |-> movement, weight |-> weight,
                      unit |-> unit, date |-> now]}
             /\ weightlift_seq' = weightlift_seq + 1

add_weightlift_pr(user_id, movement, weight, unit) ==
    IF ForeignKeyFails(user_id)
    THEN UNCHANGED weightliftvars
    ELSE /\ weightlifts_prs' = weightlifts_prs \cup
                {[id |-> weightlift_seq + 1, user_id |-> user_id,
                  movement |-> movement, weight |-> weight, unit |-> unit,
                  date |-> now]}
         /\ weightlift_seq' = weightlift_seq + 1

(* What add_weightlift_pr and add_benchmark_pr return: True, or False on the
   exception of a failed insert. *)
add_pr_result(user_id) == ~ForeignKeyFails(user_id)

(* What delete_weightlift_pr and delete_benchmark_pr return, whether or not
   a row matched. *)
delete_pr_result == TRUE

(* ORDER BY date DESC: every listing of the rows with the dates not
   increasing; SQLite leaves the order of rows of one date open. *)
RECURSIVE OrderByDateDesc(_)
OrderByDateDesc(rows) ==
    IF rows = {} THEN {<<>>}
    ELSE UNION {{<<r>> \o rest : rest \in OrderByDateDesc(rows \ {r})} :
                r \in {x \in rows : \A y \in rows : x.date >= y.date}}

(* The list of every owner's records. *)
get_weightlifts_by_user_unfiltered(user_id) ==
    OrderByDateDesc(weightlifts_prs)

get_weightlifts_by_user(user_id) ==
    OrderByDateDesc({r \in weightlifts_prs : r.user_id = user_id})

(* The scan keeping the lighter record. *)
(* The listing that does not join the users table. *)
get_all_weightlifts_unjoined ==
    OrderByDateDesc({[id |-> w.id, user_id |-> w.user_id,
                      movement |-> w.movement, weight |-> w.weight,
                      unit |-> w.unit, date |-> w.date,
                      username |-> "", full_name |-> NoName] :
                     w \in weightlifts_prs})

get_all_weightlifts ==
    OrderByDateDesc(UNION {{[id |-> w.id, user_id |-> w.user_id,
                             movement |-> w.movement, weight |-> w.weight,
                             unit |-> w.unit, date |-> w.date,
                             username |-> u.username,
                             full_name |-> u.full_name] :
                            u \in {x \in users : x.id = w.user_id}} :
                           w \in weightlifts_prs})

RECURSIVE ScanWeightliftsLighter(_, _, _)
ScanWeightliftsLighter(data, i, prs) ==
    IF i > Len(data) THEN prs
    ELSE LET entry == data[i]
             movement == entry.movement
         IN  IF movement \notin DOMAIN prs
                \/ entry.weight < prs[movement].weight
             THEN ScanWeightliftsLighter(data, i + 1,
                      [m \in DOMAIN prs \cup {movement} |->
                          IF m = movement THEN entry ELSE prs[m]])
             ELSE ScanWeightliftsLighter(data, i + 1, prs)

(* The scan replacing the record on an equal weight too. *)
RECURSIVE ScanWeightliftsOrEqual(_, _, _)
ScanWeightliftsOrEqual(data, i, prs) ==
    IF i > Len(data) THEN prs
    ELSE LET entry == data[i]
             movement == entry.movement
         IN  IF movement \notin DOMAIN prs
                \/ entry.weight >= prs[movement].weight
             THEN ScanWeightliftsOrEqual(data, i + 1,
                      [m \in DOMAIN prs \cup {movement} |->
                          IF m = movement THEN entry ELSE prs[m]])
             ELSE ScanWeightliftsOrEqual(data, i + 1, prs)

RECURSIVE ScanWeightlifts(_, _, _)
ScanWeightlifts(data, i, prs) ==
    IF i > Len(data) THEN prs
    ELSE LET entry == data[i]
             movement == entry.movement
         IN  IF movement \notin DOMAIN prs
                \/ entry.weight > prs[movement].weight
             THEN ScanWeightlifts(data, i + 1,
                      [m \in DOMAIN prs \cup {movement} |->
                          IF m = movement THEN entry ELSE prs[m]])
             ELSE ScanWeightlifts(data, i + 1, prs)

get_current_prs_weightlifts(user_id) ==
    {IF data = <<>> THEN EmptyDict ELSE ScanWeightlifts(data, 1, EmptyDict) :
     data \in get_weightlifts_by_user(user_id)}

(* The delete that never looks at the owner. *)
delete_weightlift_pr_any(pr_id, user_id, is_admin) ==
    /\ weightlifts_prs' = {r \in weightlifts_prs : r.id # pr_id}
    /\ UNCHANGED weightlift_seq

delete_weightlift_pr(pr_id, user_id, is_admin) ==
    /\ weightlifts_prs' =
          IF is_admin
          THEN {r \in weightlifts_prs : r.id # pr_id}
          ELSE {r \in weightlifts_prs : ~(r.id = pr_id /\ r.user_id = user_id)}
    /\ UNCHANGED weightlift_seq

-----------------------------------------------------------------------------
(* src/db.py: benchmarks *)

add_benchmark_pr(user_id, workout, time_minutes, time_seconds, rounds, reps) ==
    IF ForeignKeyFails(user_id)
    THEN UNCHANGED benchmarkvars
    ELSE /\ benchmarks_prs' = benchmarks_prs \cup
                {[id |-> benchmark_seq + 1, user_id |-> user_id,
                  workout |-> workout, time_minutes |-> time_minutes,
                  time_seconds |-> time_seconds, rounds |-> rounds,
                  reps |-> reps, date |-> now]}
         /\ benchmark_seq' = benchmark_seq + 1

get_benchmarks_by_user(user_id) ==
    OrderByDateDesc({r \in benchmarks_prs : r.user_id = user_id})

get_all_benchmarks ==
    OrderByDateDesc(UNION {{[id |-> b.id, user_id |-> b.user_id,
                             workout |-> b.workout,
                             time_minutes |-> b.time_minutes,
                             time_seconds |-> b.time_seconds,
                             rounds |-> b.rounds, reps |-> b.reps,
                             date |-> b.date,
                             username |-> u.username,
                             full_name |-> u.full_name] :
                            u \in {x \in users : x.id = b.user_id}} :
                           b \in benchmarks_prs})

TotalSeconds(entry) == entry.time_minutes * 60 + entry.time_seconds

RECURSIVE ScanBenchmarks(_, _, _)
ScanBenchmarks(data, i, prs) ==
    IF i > Len(data) THEN prs
    ELSE LET entry == data[i]
             workout == entry.workout
             total_seconds == TotalSeconds(entry)
         IN  IF workout \notin DOMAIN prs
             THEN ScanBenchmarks(data, i + 1,
                      [w \in DOMAIN prs \cup {workout} |->
                          IF w = workout THEN entry ELSE prs[w]])
             ELSE LET current_total == TotalSeconds(prs[workout])
                  IN  IF total_seconds < current_total /\ total_seconds > 0
                      THEN ScanBenchmarks(data, i + 1,
                               [prs EXCEPT ![workout] = entry])
                      ELSE ScanBenchmarks(data, i + 1, prs)

get_current_prs_benchmarks(user_id) ==
    {IF data = <<>> THEN EmptyDict ELSE ScanBenchmarks(data, 1, EmptyDict) :
     data \in get_benchmarks_by_user(user_id)}

delete_benchmark_pr(pr_id, user_id, is_admin) ==
    /\ benchmarks_prs' =
          IF is_admin
          THEN {r \in benchmarks_prs : r.id # pr_id}
          ELSE {r \in benchmarks_prs : ~(r.id = pr_id /\ r.user_id = user_id)}
    /\ UNCHANGED benchmark_seq

-----------------------------------------------------------------------------
(* src/auth.py: passwords *)

(* bcrypt draws a salt; a hash is the salt with the digest of the password
   under it, and two hashes agree only on the same salt and password. *)
(* Two passwords of 73 bytes that share their first 72 bytes. *)
LongPasswords == {"72a+X", "72a+Y"}

PasswordLength(password) ==
    CASE password = "admin" -> 5
      [] password = "pass" -> 4
      [] password = "abc" -> 3
      [] password \in LongPasswords -> 73

(* bcrypt works on the first 72 bytes of the password. *)
BcryptMaxBytes == 72

First72(password) ==
    IF PasswordLength(password) > BcryptMaxBytes THEN "72a" ELSE password

(* bcrypt before 5.0 ignores the bytes after the 72nd without notice, which
   is what hash_password and verify_password below compute; bcrypt 5.0 and
   later raise ValueError for such a password, in hashpw and in checkpw. *)
BcryptRaises(password) == PasswordLength(password) > BcryptMaxBytes

Raised == [raised |-> "ValueError"]

hash_password(password) ==
    {[salt |-> salt, digest |-> First72(password)] : salt \in Salts}

verify_password(password, password_hash) ==
    password_hash.digest = First72(password)

(* The login that does not verify the password. *)
login_user_unverified(username, password) == get_user_by_username(username)

login_user(username, password) ==
    LET user == get_user_by_username(username)
    IN  IF user # None /\ verify_password(password, user.password_hash)
        THEN user
        ELSE None

(* The registration that passes no role, with a create_user whose default
   role is admin. *)
register_user_default_admin(username, password, full_name) ==
    \E password_hash \in hash_password(password) :
        create_user(username, password_hash, "admin", full_name)

register_user(username, password, full_name) ==
    \E password_hash \in hash_password(password) :
        create_user(username, password_hash, "user", full_name)

register_user_result(username) == create_user_result(username) # RetNone

change_password(user_id, old_password, new_password) ==
    LET user == get_user_by_id(user_id)
    IN  IF user = None \/ ~verify_password(old_password, user.password_hash)
        THEN UNCHANGED uservars
        ELSE \E new_password_hash \in hash_password(new_password) :
                update_user_password(user_id, new_password_hash)

change_password_result(user_id, old_password) ==
    LET user == get_user_by_id(user_id)
    IN  user # None /\ verify_password(old_password, user.password_hash)

-----------------------------------------------------------------------------
(* src/auth.py: the session *)

NoId == 0

NoRole == "(None)"

set_authenticated_user(s, user) ==
    session_state' = [session_state EXCEPT
                         ![s] = [authenticated |-> TRUE, user |-> user]]

(* The logout that resets the flag and leaves the user in the slot. *)
logout_keeps_user(s) ==
    session_state' = [session_state EXCEPT ![s].authenticated = FALSE]

logout(s) ==
    session_state' = [session_state EXCEPT
                         ![s] = [authenticated |-> FALSE, user |-> None]]

is_authenticated(s) == session_state[s].authenticated

get_current_user(s) == session_state[s].user

get_current_user_id(s) ==
    LET user == get_current_user(s)
    IN  IF user # None THEN user.id ELSE NoId

get_current_user_role(s) ==
    LET user == get_current_user(s)
    IN  IF user # None THEN user.role ELSE NoRole

(* The administrator test that every logged-in session passes. *)
is_admin_any_role(s) == is_authenticated(s)

is_admin(s) == get_current_user_role(s) = "admin"

(* The coach test that never answers yes. *)
is_coach_never(s) == FALSE

is_coach(s) == get_current_user_role(s) = "coach"

is_user(s) == get_current_user_role(s) = "user"

(* The check that lets every role see all data. *)
can_view_all_data_any_role(s) ==
    get_current_user_role(s) \in {"user", "coach", "admin"}

can_view_all_data(s) == get_current_user_role(s) \in {"coach", "admin"}

can_modify_all_data(s) == is_admin(s)

(* db.has_users is called by ensure_default_admin and is not defined in
   src/db.py: whether the users table holds a row. *)
has_users == users # {}

-----------------------------------------------------------------------------
(* Time passes. *)
Tick ==
    /\ now < MaxClock
    /\ now' = now + 1
    /\ UNCHANGED <<dbvars, foreign_keys, session_state, pc, ret, call>>

-----------------------------------------------------------------------------
(* The store after init_database. *)
InitDb ==
    /\ users = {}
    /\ user_seq = 0
    /\ weightlifts_prs = {}
    /\ weightlift_seq = 0
    /\ benchmarks_prs = {}
    /\ benchmark_seq = 0
    /\ now = 0
    /\ foreign_keys \in BOOLEAN
    /\ session_state = [s \in Sessions |-> [authenticated |-> FALSE, user |-> None]]
    /\ pc = [s \in Sessions |-> "start"]
    /\ ret = RetNone
    /\ call = NoCall

(* The store with the accounts of OwnerIds created and no record yet. *)
InitRecords ==
    /\ users = {[id |-> 1, username |-> "admin",
                 password_hash |-> [salt |-> 1, digest |-> "admin"],
                 role |-> "admin", full_name |-> "Administrator"],
                [id |-> 2, username |-> "ann",
                 password_hash |-> [salt |-> 1, digest |-> "pass"],
                 role |-> "user", full_name |-> NoName]}
    /\ user_seq = 2
    /\ weightlifts_prs = {}
    /\ weightlift_seq = 0
    /\ benchmarks_prs = {}
    /\ benchmark_seq = 0
    /\ now = 0
    /\ foreign_keys \in BOOLEAN
    /\ session_state = [s \in Sessions |-> [authenticated |-> FALSE, user |-> None]]
    /\ pc = [s \in Sessions |-> "start"]
    /\ ret = RetNone
    /\ call = NoCall

-----------------------------------------------------------------------------
(* The weightlift functions of src/db.py, called with any arguments. *)

CallAddWeightlift ==
    /\ weightlift_seq < MaxWeightlifts
    /\ \E user_id \in OwnerIds, movement \in WEIGHTLIFTS, weight \in Weights :
          /\ add_weightlift_pr(user_id, movement, weight, "lbs")
          /\ ret' = RetBool(add_pr_result(user_id))
    /\ UNCHANGED <<uservars, benchmarkvars, now, foreign_keys, appvars, call>>

CallDeleteWeightlift ==
    /\ \E pr_id \in 1..MaxWeightlifts, user_id \in OwnerIds, as_admin \in BOOLEAN :
          /\ delete_weightlift_pr(pr_id, user_id, as_admin)
          /\ ret' = RetBool(delete_pr_result)
    /\ UNCHANGED <<uservars, benchmarkvars, now, foreign_keys, appvars, call>>

NextWeightlifts == CallAddWeightlift \/ CallDeleteWeightlift \/ Tick

SpecWeightlifts == InitRecords /\ [][NextWeightlifts]_vars

WeightliftsOf(user_id, movement) ==
    {r \in weightlifts_prs : r.user_id = user_id /\ r.movement = movement}

(* C1: for every owner and movement with a stored record, the current PR of
   the movement is a stored record of that owner and movement, and no stored
   record of that owner and movement is heavier. *)
C1_CurrentPrIsHeaviest ==
    \A user_id \in OwnerIds : \A prs \in get_current_prs_weightlifts(user_id) :
        \A movement \in WEIGHTLIFTS :
            LET stored == WeightliftsOf(user_id, movement)
            IN  stored # {} =>
                   /\ movement \in DOMAIN prs
                   /\ prs[movement] \in stored
                   /\ \A r \in stored : prs[movement].weight >= r.weight

(* C1 witness: after an add and a delete, an owner holds a lighter and a
   heavier record of one movement, and the heavier one is the current PR. *)
C1_Witness ==
    \E user_id \in OwnerIds, movement \in WEIGHTLIFTS :
        /\ Cardinality(weightlifts_prs) < weightlift_seq
        /\ \E a, b \in WeightliftsOf(user_id, movement) :
              /\ a.weight < b.weight
              /\ a.date > b.date
              /\ \A prs \in get_current_prs_weightlifts(user_id) :
                    prs[movement] = b

MaxWeightOf(user_id, movement) ==
    {r \in WeightliftsOf(user_id, movement) :
        \A o \in WeightliftsOf(user_id, movement) : r.weight >= o.weight}

(* C2 as stated: among the stored records of one owner and movement that
   share the maximum weight, the current PR is the first inserted one (read
   in the claim's favour where rows of one second leave the scan order open:
   some admissible order returns the first inserted one). *)
C2_FirstInsertedOfTies ==
    \A user_id \in OwnerIds : \A movement \in WEIGHTLIFTS :
        WeightliftsOf(user_id, movement) # {} =>
            \E prs \in get_current_prs_weightlifts(user_id) :
                \A r \in MaxWeightOf(user_id, movement) :
                    prs[movement].id <= r.id

(* C2 amended: among the stored records of one owner and movement that share
   the maximum weight, the current PR is one of the latest date (the first
   of them in the date-descending scan), not the first inserted. *)
C2_LatestDatedOfTies ==
    \A user_id \in OwnerIds : \A prs \in get_current_prs_weightlifts(user_id) :
        \A movement \in DOMAIN prs :
            /\ prs[movement] \in MaxWeightOf(user_id, movement)
            /\ \A r \in MaxWeightOf(user_id, movement) :
                  prs[movement].date >= r.date

(* C2 witness: two records of one owner and movement share the maximum
   weight, were written in different seconds, and the later one is the PR. *)
C2_Witness ==
    \E user_id \in OwnerIds, movement \in WEIGHTLIFTS :
        \E a, b \in MaxWeightOf(user_id, movement) :
            /\ a.id < b.id
            /\ a.date < b.date
            /\ \A prs \in get_current_prs_weightlifts(user_id) :
                  prs[movement] = b

-----------------------------------------------------------------------------
(* The benchmark functions of src/db.py, called with any arguments. *)

CallAddBenchmark ==
    /\ benchmark_seq < MaxBenchmarks
    /\ \E user_id \in OwnerIds, workout \in BENCHMARK_WORKOUTS,
          time_minutes \in Minutes, time_seconds \in Seconds :
          /\ add_benchmark_pr(user_id, workout, time_minutes, time_seconds,
                  IF time_minutes = 0 /\ time_seconds = 0 THEN 5 ELSE 0, 0)
          /\ ret' = RetBool(add_pr_result(user_id))
    /\ UNCHANGED <<uservars, weightliftvars, now, foreign_keys, appvars, call>>

CallDeleteBenchmark ==
    /\ \E pr_id \in 1..MaxBenchmarks, user_id \in OwnerIds, as_admin \in BOOLEAN :
          /\ delete_benchmark_pr(pr_id, user_id, as_admin)
          /\ ret' = RetBool(delete_pr_result)
    /\ UNCHANGED <<uservars, weightliftvars, now, foreign_keys, appvars, call>>

NextBenchmarks == CallAddBenchmark \/ CallDeleteBenchmark \/ Tick

SpecBenchmarks == InitRecords /\ [][NextBenchmarks]_vars

BenchmarksOf(user_id, workout) ==
    {r \in benchmarks_prs : r.user_id = user_id /\ r.workout = workout}

PositiveTimed(user_id, workout) ==
    {r \in BenchmarksOf(user_id, workout) : TotalSeconds(r) > 0}

(* C3: when an owner's stored records of a workout include one of a positive
   total time, the current PR of the workout has the minimum positive total
   among them (read in the claim's favour where rows of one second leave the
   scan order open: some admissible order returns it). *)
C3_MinimumPositiveTotal ==
    \A user_id \in OwnerIds : \A workout \in BENCHMARK_WORKOUTS :
        PositiveTimed(user_id, workout) # {} =>
            \E prs \in get_current_prs_benchmarks(user_id) :
                /\ workout \in DOMAIN prs
                /\ prs[workout] \in PositiveTimed(user_id, workout)
                /\ \A r \in PositiveTimed(user_id, workout) :
                      TotalSeconds(prs[workout]) <= TotalSeconds(r)

(* C4: a zero-total record is never the current PR of its workout while a
   positive-time record of the same owner and workout, inserted after it,
   is stored. *)
C4_ZeroNotOverLaterPositive ==
    \A user_id \in OwnerIds : \A prs \in get_current_prs_benchmarks(user_id) :
        \A workout \in DOMAIN prs :
            \A z, p \in BenchmarksOf(user_id, workout) :
                (TotalSeconds(z) = 0 /\ TotalSeconds(p) > 0 /\ z.id < p.id)
                    => prs[workout] # z

-----------------------------------------------------------------------------
(* The add and delete functions of both record tables, called with any
   arguments by any caller; the call is recorded. *)

PrIds == 1..MaxRecords

CallerIds == OwnerIds

RecAddWeightlift ==
    /\ weightlift_seq < MaxRecords
    /\ \E user_id \in OwnerIds :
          /\ add_weightlift_pr(user_id, "Back Squat", 1, "lbs")
          /\ ret' = RetBool(add_pr_result(user_id))
          /\ call' = [fn |-> "add_weightlift_pr", user_id |-> user_id]
    /\ UNCHANGED <<uservars, benchmarkvars, now, foreign_keys, appvars>>

RecAddBenchmark ==
    /\ benchmark_seq < MaxRecords
    /\ \E user_id \in OwnerIds :
          /\ add_benchmark_pr(user_id, "Fran", 1, 0, 0, 0)
          /\ ret' = RetBool(add_pr_result(user_id))
          /\ call' = [fn |-> "add_benchmark_pr", user_id |-> user_id]
    /\ UNCHANGED <<uservars, weightliftvars, now, foreign_keys, appvars>>

RecDeleteWeightlift ==
    /\ \E pr_id \in PrIds, user_id \in CallerIds, as_admin \in BOOLEAN :
          /\ delete_weightlift_pr(pr_id, user_id, as_admin)
          /\ ret' = RetBool(delete_pr_result)
          /\ call' = [fn |-> "delete_weightlift_pr", pr_id |-> pr_id,
                      user_id |-> user_id, is_admin |-> as_admin]
    /\ UNCHANGED <<uservars, benchmarkvars, now, foreign_keys, appvars>>

RecDeleteBenchmark ==
    /\ \E pr_id \in PrIds, user_id \in CallerIds, as_admin \in BOOLEAN :
          /\ delete_benchmark_pr(pr_id, user_id, as_admin)
          /\ ret' = RetBool(delete_pr_result)
          /\ call' = [fn |-> "delete_benchmark_pr", pr_id |-> pr_id,
                      user_id |-> user_id, is_admin |-> as_admin]
    /\ UNCHANGED <<uservars, weightliftvars, now, foreign_keys, appvars>>

NextRecords ==
    \/ RecAddWeightlift
    \/ RecAddBenchmark
    \/ RecDeleteWeightlift
    \/ RecDeleteBenchmark

SpecRecords == InitRecords /\ [][NextRecords]_vars

IsDelete(table_fn) == call'.fn = table_fn

(* What a delete call may remove from a table: the row of the given id, and
   only for an admin caller or the row's owner. *)
Removable(table, pr_id, user_id, as_admin) ==
    {r \in table : r.id = pr_id /\ (as_admin \/ r.user_id = user_id)}

(* C5: a delete call removes nothing from either table but the row of the
   given id, and that row only if the caller is admin or the row's owner;
   so a call by a non-admin who is not the owner leaves both tables as they
   were. *)
C5_DeleteOnlyOwnOrAdmin ==
    [][/\ IsDelete("delete_weightlift_pr") =>
            /\ benchmarks_prs' = benchmarks_prs
            /\ weightlifts_prs' \subseteq weightlifts_prs
            /\ weightlifts_prs \ weightlifts_prs' \subseteq
                   Removable(weightlifts_prs, call'.pr_id, call'.user_id,
                             call'.is_admin)
       /\ IsDelete("delete_benchmark_pr") =>
            /\ weightlifts_prs' = weightlifts_prs
            /\ benchmarks_prs' \subseteq benchmarks_prs
            /\ benchmarks_prs \ benchmarks_prs' \subseteq
                   Removable(benchmarks_prs, call'.pr_id, call'.user_id,
                             call'.is_admin)
      ]_vars

(* C5 witness: the last call was a delete by a non-admin of a row that
   another user owns, and the row is still stored. *)
C5_Witness ==
    /\ call.fn = "delete_benchmark_pr"
    /\ ~call.is_admin
    /\ \E r \in benchmarks_prs : r.id = call.pr_id /\ r.user_id # call.user_id
    /\ weightlifts_prs # {}

RowIds(table) == {r.id : r \in table}

Listed(data) == {data[i].id : i \in 1..Len(data)}

(* C6: once its owner has deleted a record, no listing of that owner shows
   its id, then or later (an id once assigned and no longer stored is never
   stored again); and a delete call for an id that is not stored, deleted
   before or never assigned, returns True and changes neither table. *)
C6_DeletedStaysDeleted ==
    [][/\ \A user_id \in OwnerIds :
            /\ \A data \in get_weightlifts_by_user(user_id)' :
                  /\ (/\ IsDelete("delete_weightlift_pr")
                      /\ call'.user_id = user_id)
                        => call'.pr_id \notin Listed(data)
                  /\ \A pr_id \in 1..weightlift_seq :
                        pr_id \notin RowIds(weightlifts_prs)
                            => pr_id \notin Listed(data)
            /\ \A data \in get_benchmarks_by_user(user_id)' :
                  /\ (/\ IsDelete("delete_benchmark_pr")
                      /\ call'.user_id = user_id)
                        => call'.pr_id \notin Listed(data)
                  /\ \A pr_id \in 1..benchmark_seq :
                        pr_id \notin RowIds(benchmarks_prs)
                            => pr_id \notin Listed(data)
       /\ (/\ IsDelete("delete_weightlift_pr")
           /\ call'.pr_id \notin RowIds(weightlifts_prs))
             => /\ ret' = RetBool(TRUE)
                /\ UNCHANGED <<weightlifts_prs, benchmarks_prs>>
       /\ (/\ IsDelete("delete_benchmark_pr")
           /\ call'.pr_id \notin RowIds(benchmarks_prs))
             => /\ ret' = RetBool(TRUE)
                /\ UNCHANGED <<weightlifts_prs, benchmarks_prs>>
      ]_vars

(* C6 witness: the last call was the owner's own delete of an id assigned
   earlier and no longer stored, while the owner holds a record inserted
   after it. *)
C6_Witness ==
    /\ call.fn = "delete_weightlift_pr"
    /\ ~call.is_admin
    /\ call.pr_id <= weightlift_seq
    /\ call.pr_id \notin RowIds(weightlifts_prs)
    /\ ret = RetBool(TRUE)
    /\ \E r \in weightlifts_prs : r.user_id = call.user_id /\ r.id > call.pr_id

-----------------------------------------------------------------------------
(* The account functions of src/db.py and src/auth.py, called with any
   arguments in any interleaving; the call is recorded. *)

Hashes == UNION {hash_password(password) : password \in Passwords}

UserIds == 1..MaxUserId

CallCreateUser ==
    /\ \E username \in Usernames, password_hash \in Hashes, role \in Roles,
          full_name \in FullNames :
          /\ user_seq < MaxUserId \/ UsernameTaken(username)
          /\ create_user(username, password_hash, role, full_name)
          /\ ret' = create_user_result(username)
          /\ call' = [fn |-> "create_user", username |-> username]
    /\ UNCHANGED <<weightliftvars, benchmarkvars, now, foreign_keys, appvars>>

CallRegisterUser ==
    /\ \E username \in Usernames, password \in Passwords,
          full_name \in FullNames :
          /\ user_seq < MaxUserId \/ UsernameTaken(username)
          /\ register_user(username, password, full_name)
          /\ ret' = RetBool(register_user_result(username))
          /\ call' = [fn |-> "register_user", username |-> username]
    /\ UNCHANGED <<weightliftvars, benchmarkvars, now, foreign_keys, appvars>>

CallUpdateUserRole ==
    /\ \E user_id \in UserIds, role \in Roles :
          /\ update_user_role(user_id, role)
          /\ ret' = RetBool(TRUE)
          /\ call' = [fn |-> "update_user_role", user_id |-> user_id]
    /\ UNCHANGED <<weightliftvars, benchmarkvars, now, foreign_keys, appvars>>

CallUpdateUserPassword ==
    /\ \E user_id \in UserIds, password_hash \in Hashes :
          /\ update_user_password(user_id, password_hash)
          /\ ret' = RetBool(TRUE)
          /\ call' = [fn |-> "update_user_password", user_id |-> user_id]
    /\ UNCHANGED <<weightliftvars, benchmarkvars, now, foreign_keys, appvars>>

CallDeleteUser ==
    /\ \E user_id \in UserIds :
          /\ delete_user(user_id)
          /\ ret' = RetBool(TRUE)
          /\ call' = [fn |-> "delete_user", user_id |-> user_id]
    /\ UNCHANGED <<now, foreign_keys, appvars>>

NextUsers ==
    \/ CallCreateUser
    \/ CallRegisterUser
    \/ CallUpdateUserRole
    \/ CallUpdateUserPassword
    \/ CallDeleteUser

SpecUsers == InitDb /\ [][NextUsers]_vars

IsCreation == call'.fn \in {"create_user", "register_user"}

CreationFailed ==
    IF call'.fn = "create_user" THEN ret' = RetNone ELSE ret' = RetBool(FALSE)

(* C7: a creation, by create_user or register_user, under a username that a
   user already has fails and leaves the users table, and so the id, hash,
   role and full name of that user, as it was; and after every step no two
   users share a username. *)
C7_DuplicateUsernameRejected ==
    [][/\ (IsCreation /\ UsernameTaken(call'.username))
             => /\ CreationFailed
                /\ users' = users
       /\ \A u1, u2 \in users' : u1.username = u2.username => u1 = u2
      ]_vars

(* C7 witness: the last call was a register_user that failed, and the user
   holding the username is not one register_user could have written. *)
C7_Witness ==
    /\ call.fn = "register_user"
    /\ ret = RetBool(FALSE)
    /\ \E u \in users : u.username = call.username /\ u.role = "admin"
    /\ Cardinality(users) = 2

-----------------------------------------------------------------------------
(* src/app.py: every interaction of a session runs the script from the top:
   the startup lines, then main, which renders the page of the session and
   executes the handler of the widget that was used.  The records of this
   specification are all written in one second; the specifications of the
   tables above are the ones that advance the clock. *)

FormPasswords == {"admin", "abc"}

(* The passwords an administrator gives to the accounts it creates. *)
CreatePasswords == {"admin"}

FormMovements == {"Back Squat"}

FormWorkouts == {"Fran"}

FormWeights == 0..1

(* minutes, seconds and rounds of a benchmark form *)
FormTimes == {<<0, 0, 0>>, <<1, 0, 0>>, <<0, 0, 5>>}

Entries(data) == {data[i] : i \in 1..Len(data)}

(* The rows the tables have been given so far. *)
AppRows == user_seq + weightlift_seq + benchmark_seq

(* auth.ensure_default_admin reads has_users and, in a second statement,
   creates the administrator; other sessions may run in between. *)
ensure_default_admin_check(s) ==
    /\ pc[s] = "start"
    /\ ~has_users
    /\ pc' = [pc EXCEPT ![s] = "create"]
    /\ UNCHANGED <<dbvars, now, foreign_keys, session_state, ret, call>>

ensure_default_admin_create(s) ==
    /\ pc[s] = "create"
    /\ AppRows < MaxAppRows \/ UsernameTaken("admin")
    /\ \E password_hash \in hash_password("admin") :
          create_user("admin", password_hash, "admin", "Administrator")
    /\ pc' = [pc EXCEPT ![s] = "main"]
    /\ UNCHANGED <<weightliftvars, benchmarkvars, now, foreign_keys,
                   session_state, ret, call>>

(* The script of session s has passed the startup lines and runs main. *)
RunsMain(s) == pc[s] = "main" \/ (pc[s] = "start" /\ has_users)

(* The run ends; the next interaction starts the script again. *)
Rerun(s) == pc' = [pc EXCEPT ![s] = "start"]

(* The user selector of show_dashboard takes as its default the index of
   the session's own id among get_all_users, and raises when that id is not
   listed; the tabs after the dashboard are then not executed. *)
show_dashboard_raises(s) ==
    /\ can_view_all_data(s)
    /\ ~(\E u \in get_all_users : u.id = get_current_user_id(s))

(* main has reached the tabs after the dashboard. *)
RunsTabs(s) ==
    /\ RunsMain(s)
    /\ is_authenticated(s)
    /\ ~show_dashboard_raises(s)

(* The submission of the login form with the given inputs. *)
LoginAs(s, username, password) ==
    /\ RunsMain(s)
    /\ ~is_authenticated(s)
    /\ LET user == login_user(username, password)
       IN  IF user # None
           THEN set_authenticated_user(s, user)
           ELSE UNCHANGED session_state
    /\ Rerun(s)
    /\ UNCHANGED <<dbvars, now, foreign_keys, ret, call>>

Login(s) ==
    \E username \in Usernames, password \in FormPasswords :
        LoginAs(s, username, password)

Register(s) ==
    /\ RunsMain(s)
    /\ ~is_authenticated(s)
    /\ \E new_username \in Usernames, new_password \in FormPasswords,
          confirm_password \in FormPasswords, full_name \in {NoName} :
          IF new_password # confirm_password \/ PasswordLength(new_password) < 4
          THEN UNCHANGED uservars
          ELSE /\ AppRows < MaxAppRows \/ UsernameTaken(new_username)
               /\ register_user(new_username, new_password, full_name)
    /\ Rerun(s)
    /\ UNCHANGED <<weightliftvars, benchmarkvars, now, foreign_keys,
                   session_state, ret, call>>

Logout(s) ==
    /\ RunsMain(s)
    /\ is_authenticated(s)
    /\ logout(s)
    /\ Rerun(s)
    /\ UNCHANGED <<dbvars, now, foreign_keys, ret, call>>

UpdateRole(s) ==
    /\ RunsTabs(s)
    /\ is_admin(s)
    /\ \E selected_user \in get_all_users, new_role \in Roles :
          update_user_role(selected_user.id, new_role)
    /\ Rerun(s)
    /\ UNCHANGED <<weightliftvars, benchmarkvars, now, foreign_keys,
                   session_state, ret, call>>

DeleteUser(s) ==
    /\ RunsTabs(s)
    /\ is_admin(s)
    /\ \E selected_user \in get_all_users :
          IF selected_user.id = get_current_user_id(s)
          THEN UNCHANGED dbvars
          ELSE delete_user(selected_user.id)
    /\ Rerun(s)
    /\ UNCHANGED <<now, foreign_keys, session_state, ret, call>>

CreateUser(s) ==
    /\ RunsTabs(s)
    /\ is_admin(s)
    /\ \E new_username \in Usernames, new_password \in CreatePasswords,
          new_role \in Roles, new_full_name \in {NoName} :
          /\ AppRows < MaxAppRows \/ UsernameTaken(new_username)
          /\ \E password_hash \in hash_password(new_password) :
                create_user(new_username, password_hash, new_role,
                            new_full_name)
    /\ Rerun(s)
    /\ UNCHANGED <<weightliftvars, benchmarkvars, now, foreign_keys,
                   session_state, ret, call>>

(* The owner selection that is offered to every role. *)
user_id_for_add_any_role(s) == {u.id : u \in get_all_users}

(* The owner of a record added by session s: an administrator selects one
   of get_all_users, everybody else adds under the id of the session. *)
user_id_for_add(s) ==
    IF is_admin(s)
    THEN {u.id : u \in get_all_users}
    ELSE {get_current_user_id(s)}

(* The condition that lets a weight of 0 through. *)
weight_accepted_from_zero(weight) == weight >= 0

(* The condition of the weightlift form: a weight of 0, the least the
   number input allows, is not recorded. *)
weight_accepted(weight) == weight > 0

(* The submission of the weightlift form with the given inputs. *)
SubmitWeightliftWith(s, user_id, movement, weight) ==
    /\ RunsTabs(s)
    /\ ~is_coach(s)
    /\ user_id \in user_id_for_add(s)
    /\ IF weight_accepted(weight)
       THEN /\ AppRows < MaxAppRows
            /\ add_weightlift_pr(user_id, movement, weight, "lbs")
       ELSE UNCHANGED weightliftvars
    /\ Rerun(s)
    /\ UNCHANGED <<uservars, benchmarkvars, now, foreign_keys,
                   session_state, ret, call>>

SubmitWeightlift(s) ==
    \E user_id \in user_id_for_add(s), movement \in FormMovements,
       weight \in FormWeights :
        SubmitWeightliftWith(s, user_id, movement, weight)

(* The lists the history column of show_weightlifts may hold. *)
weightlift_history(s) ==
    IF can_view_all_data(s)
    THEN get_all_weightlifts
            \cup UNION {get_weightlifts_by_user(u.id) : u \in get_all_users}
    ELSE get_weightlifts_by_user(get_current_user_id(s))

DeleteWeightlift(s) ==
    /\ RunsTabs(s)
    /\ ~is_coach(s)
    /\ \E data \in weightlift_history(s),
          movement_filter \in {"All"} \cup WEIGHTLIFTS :
          LET filtered_data ==
                  {e \in Entries(data) :
                      movement_filter = "All" \/ e.movement = movement_filter}
              deletable_data ==
                  IF is_admin(s)
                  THEN filtered_data
                  ELSE {e \in filtered_data :
                           e.user_id = get_current_user_id(s)}
          IN  \E entry_to_delete \in deletable_data :
                 delete_weightlift_pr(entry_to_delete.id,
                                      get_current_user_id(s), is_admin(s))
    /\ Rerun(s)
    /\ UNCHANGED <<uservars, benchmarkvars, now, foreign_keys,
                   session_state, ret, call>>

(* The condition of the benchmark form: a time or a number of rounds has
   been entered. *)
time_accepted(time_minutes, time_seconds, rounds) ==
    time_minutes > 0 \/ time_seconds > 0 \/ rounds > 0

(* The submission of the benchmark form with the given inputs. *)
SubmitBenchmarkWith(s, user_id, workout, time_minutes, time_seconds, rounds) ==
    /\ RunsTabs(s)
    /\ ~is_coach(s)
    /\ user_id \in user_id_for_add(s)
    /\ IF time_accepted(time_minutes, time_seconds, rounds)
       THEN /\ AppRows < MaxAppRows
            /\ add_benchmark_pr(user_id, workout, time_minutes, time_seconds,
                                rounds, 0)
       ELSE UNCHANGED benchmarkvars
    /\ Rerun(s)
    /\ UNCHANGED <<uservars, weightliftvars, now, foreign_keys,
                   session_state, ret, call>>

SubmitBenchmark(s) ==
    \E user_id \in user_id_for_add(s), workout \in FormWorkouts,
       time \in FormTimes :
        SubmitBenchmarkWith(s, user_id, workout, time[1], time[2], time[3])

(* The lists the history column of show_benchmarks may hold. *)
benchmark_history(s) ==
    IF can_view_all_data(s)
    THEN get_all_benchmarks
            \cup UNION {get_benchmarks_by_user(u.id) : u \in get_all_users}
    ELSE get_benchmarks_by_user(get_current_user_id(s))

DeleteBenchmark(s) ==
    /\ RunsTabs(s)
    /\ ~is_coach(s)
    /\ \E data \in benchmark_history(s),
          workout_filter \in {"All"} \cup BENCHMARK_WORKOUTS :
          LET filtered_data ==
                  {e \in Entries(data) :
                      workout_filter = "All" \/ e.workout = workout_filter}
              deletable_data ==
                  IF is_admin(s)
                  THEN filtered_data
                  ELSE {e \in filtered_data :
                           e.user_id = get_current_user_id(s)}
          IN  \E entry_to_delete \in deletable_data :
                 delete_benchmark_pr(entry_to_delete.id,
                                     get_current_user_id(s), is_admin(s))
    /\ Rerun(s)
    /\ UNCHANGED <<uservars, weightliftvars, now, foreign_keys,
                   session_state, ret, call>>

(* An interaction that only displays the page. *)
Render(s) ==
    /\ RunsMain(s)
    /\ Rerun(s)
    /\ UNCHANGED <<dbvars, now, foreign_keys, session_state, ret, call>>

Next ==
    \/ \E s \in Sessions :
          \/ ensure_default_admin_check(s)
          \/ ensure_default_admin_create(s)
          \/ Login(s)
          \/ Register(s)
          \/ Logout(s)
          \/ UpdateRole(s)
          \/ DeleteUser(s)
          \/ CreateUser(s)
          \/ SubmitWeightlift(s)
          \/ DeleteWeightlift(s)
          \/ SubmitBenchmark(s)
          \/ DeleteBenchmark(s)
          \/ Render(s)

Spec == InitDb /\ [][Next]_vars

-----------------------------------------------------------------------------
(* What the pages of session s display. *)

(* The users the selector of show_dashboard and of show_progress offers. *)
viewable_user_ids(s) ==
    IF can_view_all_data(s)
    THEN {u.id : u \in get_all_users}
    ELSE {get_current_user_id(s)}

show_dashboard(s) ==
    UNION {UNION {{prs[k] : k \in DOMAIN prs} :
                  prs \in get_current_prs_weightlifts(user_id)
                          \cup get_current_prs_benchmarks(user_id)} :
           user_id \in viewable_user_ids(s)}

show_weightlifts(s) == UNION {Entries(data) : data \in weightlift_history(s)}

show_benchmarks(s) == UNION {Entries(data) : data \in benchmark_history(s)}

show_progress(s) ==
    UNION {UNION {Entries(data) :
                  data \in get_weightlifts_by_user(user_id)
                           \cup get_benchmarks_by_user(user_id)} :
           user_id \in viewable_user_ids(s)}

(* Every record some selection of the widgets of main displays to s. *)
Shown(s) ==
    IF ~is_authenticated(s) \/ show_dashboard_raises(s)
    THEN {}
    ELSE show_dashboard(s) \cup show_weightlifts(s)
            \cup show_benchmarks(s) \cup show_progress(s)

-----------------------------------------------------------------------------
(* The ids delete_user has removed: AUTOINCREMENT has assigned them and the
   users table holds no row with them. *)
DeletedUserIds == {i \in 1..user_seq : ~(\E u \in users : u.id = i)}

StoredRecords == weightlifts_prs \cup benchmarks_prs

(* C8: once delete_user has removed user u, neither get_all_weightlifts nor
   get_all_benchmarks lists a record whose user_id is u, in any later
   state. *)
C8_DeletedUserNotListed ==
    \A i \in DeletedUserIds :
        /\ \A data \in get_all_weightlifts :
              \A e \in Entries(data) : e.user_id # i
        /\ \A data \in get_all_benchmarks :
              \A e \in Entries(data) : e.user_id # i

(* C8 witness: a user has been deleted while a record of that user is still
   stored, so the listings are what keeps the record out. *)
C8_Witness ==
    \E i \in DeletedUserIds : \E r \in StoredRecords : r.user_id = i

(* C9: every stored weightlift and benchmark record is owned by a user that
   exists in the users table. *)
C9_RecordsOwnedByExistingUser ==
    \A r \in StoredRecords : \E u \in users : u.id = r.user_id

(* C10: a session whose identity has the role user is shown only records
   whose owner is that identity. *)
C10_UserSeesOwnRecordsOnly ==
    \A s \in Sessions :
        is_user(s) => \A e \in Shown(s) : e.user_id = get_current_user_id(s)

(* C10 witness: a session with the role user is logged in while the store
   holds a record of another existing user, which a second session is shown
   and this session is not. *)
C10_Witness ==
    \E s, other \in Sessions :
        /\ is_authenticated(s)
        /\ is_user(s)
        /\ \E r \in StoredRecords :
              /\ r.user_id # get_current_user_id(s)
              /\ \E e \in Shown(other) : e.id = r.id /\ e.user_id = r.user_id
              /\ ~(\E e \in Shown(s) : e.user_id = r.user_id)

-----------------------------------------------------------------------------
(* One run of the script of session s: any of its startup steps and
   handlers. *)
SessionStep(s) ==
    \/ ensure_default_admin_check(s)
    \/ ensure_default_admin_create(s)
    \/ Login(s)
    \/ Register(s)
    \/ Logout(s)
    \/ UpdateRole(s)
    \/ DeleteUser(s)
    \/ CreateUser(s)
    \/ SubmitWeightlift(s)
    \/ DeleteWeightlift(s)
    \/ SubmitBenchmark(s)
    \/ DeleteBenchmark(s)
    \/ Render(s)

(* C11: no step of a session whose identity has the role coach adds a
   record to or deletes a record from either record table: a step that
   changes a record table is not a step of such a session. *)
C11_CoachNeverWritesRecords ==
    [][<<weightlifts_prs, benchmarks_prs>>' # <<weightlifts_prs, benchmarks_prs>>
          => \A s \in Sessions :
                get_current_user_role(s) = "coach" => ~SessionStep(s)
      ]_vars

(* C11 witness: a coach is logged in, its pages render, and the history it
   is shown holds a record. *)
C11_Witness ==
    \E s \in Sessions :
        /\ is_authenticated(s)
        /\ get_current_user_role(s) = "coach"
        /\ ~show_dashboard_raises(s)
        /\ show_weightlifts(s) \cup show_benchmarks(s) # {}

(* The records a step adds to or removes from the two tables. *)
RecordsAdded == StoredRecords' \ StoredRecords

RecordsRemoved == StoredRecords \ StoredRecords'

(* C12: a record created or deleted by a step of a session that is not an
   administrator is owned by the identity of that session: a step that adds
   or removes a record of another owner is not a step of such a session. *)
C12_NonAdminWritesOwnRecordsOnly ==
    [][<<weightlifts_prs, benchmarks_prs>>' # <<weightlifts_prs, benchmarks_prs>>
          => \A s \in Sessions :
                (/\ get_current_user_role(s) # "admin"
                 /\ \E r \in RecordsAdded \cup RecordsRemoved :
                       r.user_id # get_current_user_id(s))
                    => ~SessionStep(s)
      ]_vars

(* C12 witness: a session with the role user is logged in and a record of
   its identity is stored, next to an account of another user. *)
C12_Witness ==
    \E s \in Sessions :
        /\ is_authenticated(s)
        /\ is_user(s)
        /\ \E r \in StoredRecords : r.user_id = get_current_user_id(s)
        /\ \E u \in users : u.id # get_current_user_id(s)

(* The row ensure_default_admin writes. *)
IsDefaultAdmin(u) ==
    /\ u.username = "admin"
    /\ u.role = "admin"
    /\ u.full_name = "Administrator"
    /\ u.password_hash \in hash_password("admin")

(* A step manages accounts: it deletes a user, changes the role of a user,
   or creates a user that is neither a self-registered one (role user) nor
   the default administrator of the startup. *)
AccountsManaged ==
    \/ \E u \in users : ~(\E v \in users' : v.id = u.id)
    \/ \E u \in users : \E v \in users' : v.id = u.id /\ v.role # u.role
    \/ \E v \in users' :
          /\ ~(\E u \in users : u.id = v.id)
          /\ v.role # "user"
          /\ ~IsDefaultAdmin(v)

(* C13: accounts are created with a chosen role, deleted, or given another
   role only by a session whose role is admin: a step that manages accounts
   is not a step of a session with another role or with none. *)
C13_OnlyAdminManagesAccounts ==
    [][(users' # users /\ AccountsManaged)
          => \A s \in Sessions :
                get_current_user_role(s) # "admin" => ~SessionStep(s)
      ]_vars

(* C13 witness: the users table holds a coach, which only account
   management can produce, while a session that is not an administrator is
   logged in. *)
C13_Witness ==
    /\ \E u \in users : u.role = "coach"
    /\ \E s \in Sessions :
          is_authenticated(s) /\ get_current_user_role(s) # "admin"

-----------------------------------------------------------------------------
(* C14: every user register_user creates has the role user, whatever the
   username, password and full name; the call creates at most that one user
   and changes no other. *)
C14_RegisterCreatesUserRole ==
    [][call'.fn = "register_user"
          => /\ \A v \in users' \ users :
                   v.role = "user" /\ v.username = call'.username
             /\ users \subseteq users'
             /\ Cardinality(users' \ users) <= 1
      ]_vars

(* C14 witness: the last call was a register_user that succeeded, with a
   full name, next to an administrator. *)
C14_Witness ==
    /\ call.fn = "register_user"
    /\ ret = RetBool(TRUE)
    /\ \E u \in users :
          /\ u.username = call.username
          /\ u.id = user_seq
          /\ u.role = "user"
          /\ u.full_name # NoName
    /\ \E u \in users : u.role = "admin"

-----------------------------------------------------------------------------
UnknownUser(username) == ~UsernameTaken(username)

WrongPassword(username, password) ==
    \E u \in users :
        u.username = username /\ ~verify_password(password, u.password_hash)

(* C15: login_user returns None both for a username that does not exist and
   for a wrong password of one that exists, and a submission of the login
   form that fails leaves the identity of the session and the users table
   as they were. *)
C15_LoginFailsUniformly ==
    [][\A username \in Usernames, password \in FormPasswords :
          (UnknownUser(username) \/ WrongPassword(username, password))
              => /\ login_user(username, password) = None
                 /\ \A s \in Sessions :
                       LoginAs(s, username, password)
                           => UNCHANGED <<session_state, users>>
      ]_vars

(* C15 witness: a session shows the login page while one username does not
   exist and another exists with a password other than the one tried. *)
C15_Witness ==
    /\ \E s \in Sessions : RunsMain(s) /\ ~is_authenticated(s)
    /\ \E username \in Usernames : UnknownUser(username)
    /\ \E username \in Usernames, password \in FormPasswords :
          /\ WrongPassword(username, password)
          /\ login_user(username, password) = None
    /\ \E s \in Sessions : is_authenticated(s)

-----------------------------------------------------------------------------
(* The password functions of src/auth.py, called directly on the store with
   the accounts of InitRecords. *)

AllPasswords == {"admin", "pass"} \cup LongPasswords

CallHashPassword ==
    /\ \E password \in AllPasswords :
          /\ call' = [fn |-> "hash_password", password |-> password]
          /\ \/ \E password_hash \in hash_password(password) :
                   ret' = [hash |-> password_hash]
             \/ BcryptRaises(password) /\ ret' = Raised
    /\ UNCHANGED <<dbvars, now, foreign_keys, appvars>>

(* verify_password on a hash that hash_password has just returned; an
   exception of checkpw is caught and answered with False. *)
CallVerifyPassword ==
    /\ call.fn = "hash_password"
    /\ ret # Raised
    /\ \E password \in AllPasswords :
          /\ call' = [fn |-> "verify_password", password |-> password,
                      hashed |-> call.password]
          /\ \/ ret' = RetBool(verify_password(password, ret.hash))
             \/ BcryptRaises(password) /\ ret' = RetBool(FALSE)
    /\ UNCHANGED <<dbvars, now, foreign_keys, appvars>>

CallChangePassword ==
    /\ \E user_id \in UserIds, old_password \in AllPasswords,
          new_password \in AllPasswords :
          /\ call' = [fn |-> "change_password", user_id |-> user_id,
                      old_password |-> old_password,
                      new_password |-> new_password]
          /\ \/ /\ change_password(user_id, old_password, new_password)
                /\ ret' = RetBool(change_password_result(user_id,
                                                         old_password))
             \/ /\ BcryptRaises(old_password)
                /\ UNCHANGED uservars
                /\ ret' = RetBool(FALSE)
             \/ /\ change_password_result(user_id, old_password)
                /\ BcryptRaises(new_password)
                /\ UNCHANGED uservars
                /\ ret' = Raised
    /\ UNCHANGED <<weightliftvars, benchmarkvars, now, foreign_keys, appvars>>

NextPasswords ==
    \/ CallHashPassword
    \/ CallVerifyPassword
    \/ CallChangePassword

SpecPasswords == InitRecords /\ [][NextPasswords]_vars

(* login_user returns a user for these credentials on the given users
   table. *)
LoginSucceeds(table, username, password) ==
    \E u \in table :
        u.username = username /\ verify_password(password, u.password_hash)

(* C16: change_password changes the stored hash only if the old password
   verifies against the stored hash of an existing user, and otherwise
   returns False and changes nothing; after a change that returned True,
   login with the new password succeeds and login with the old password,
   when it is another one, fails. *)
C16_ChangePasswordVerifiesOld ==
    [][call'.fn = "change_password"
          => LET user == get_user_by_id(call'.user_id)
                 verified ==
                     /\ user # None
                     /\ verify_password(call'.old_password,
                                        user.password_hash)
             IN  /\ ~verified => (ret' = RetBool(FALSE) /\ users' = users)
                 /\ ret' = RetBool(TRUE)
                       => /\ LoginSucceeds(users', user.username,
                                           call'.new_password)
                          /\ call'.old_password # call'.new_password
                                => ~LoginSucceeds(users', user.username,
                                                  call'.old_password)
      ]_vars

(* C17: verify_password(q, hash_password(p)) is true when q is p and false
   when q is another password, for every non-empty p and q. *)
C17_VerifyExactPasswordOnly ==
    call.fn = "verify_password"
        => ret = RetBool(call.password = call.hashed)

-----------------------------------------------------------------------------
(* Some role predicate of src/auth.py answers yes for session s. *)
SomeRolePredicate(s) ==
    is_admin(s) \/ is_coach(s) \/ is_user(s) \/ can_view_all_data(s)
        \/ can_modify_all_data(s)

(* authenticated is true exactly when the slot holds a user, and without a
   user no role predicate is true. *)
SlotConsistent(s) ==
    /\ is_authenticated(s) <=> get_current_user(s) # None
    /\ ~is_authenticated(s) => ~SomeRolePredicate(s)

(* C18: the identity slot of every session is empty initially, is set, to
   the user login_user returns, only by a successful login, and is emptied
   by logout; authenticated is true exactly when the slot holds a user, and
   a session that is logged out satisfies no role predicate. *)
C18_OneIdentitySlot ==
    /\ \A s \in Sessions : ~is_authenticated(s) /\ get_current_user(s) = None
    /\ [][\A s \in Sessions :
             /\ SlotConsistent(s)'
             /\ Logout(s) => (get_current_user(s) = None)'
             /\ session_state'[s] # session_state[s]
                   => \/ /\ get_current_user(s) = None
                         /\ \E username \in Usernames,
                               password \in FormPasswords :
                               /\ LoginAs(s, username, password)
                               /\ get_current_user(s)' =
                                     login_user(username, password)
                      \/ /\ get_current_user(s) # None
                         /\ Logout(s)
         ]_vars

(* C18 witness: one session is logged in and satisfies a role predicate
   while the slot of the other is empty. *)
C18_Witness ==
    \E s, other \in Sessions :
        /\ is_authenticated(s)
        /\ get_current_user(s) \in users
        /\ SomeRolePredicate(s)
        /\ ~is_authenticated(other)
        /\ get_current_user(other) = None
        /\ RunsMain(other)

(* The rows of a users table that carry the bootstrap account's name. *)
NamedAdmin(table) == {u \in table : u.username = "admin"}

(* C19: the step of ensure_default_admin that creates the account creates
   exactly one user, named 'admin' and of role 'admin', when the users table
   is empty, and creates no user and changes no table when at least one user
   exists; whichever sessions run the startup lines together, one account of
   that name results. *)
C19_DefaultAdminOnlyOnEmptyStore ==
    [][\A s \in Sessions :
          ensure_default_admin_create(s)
              => /\ Cardinality(NamedAdmin(users')) = 1
                 /\ IF users = {}
                    THEN /\ Cardinality(users') = 1
                         /\ \A u \in users' : u.username = "admin"
                                                 /\ u.role = "admin"
                    ELSE UNCHANGED dbvars
      ]_vars

-----------------------------------------------------------------------------
(* src/db.py: migrate_json_to_db *)

(* The longest array a source file holds, and the rows the two record tables
   are given in all by the migrations. *)
MaxEntries == 2

MaxMigrated == 2

(* What a source file is to os.path.exists, open and json.load: absent; an
   error of open or of the parser; bytes that are not text; or a JSON value,
   which is an array of items or not. *)
NoFile == [kind |-> "missing"]

CannotOpen == [kind |-> "IOError"]

BadSyntax == [kind |-> "JSONDecodeError"]

BadBytes == [kind |-> "UnicodeDecodeError"]

JsonNull == [kind |-> "json", array |-> FALSE]

JsonArray(items) == [kind |-> "json", array |-> TRUE, items |-> items]

(* The items of an array: objects, whose members are the entry's keys, and
   other JSON values. *)
JsonObject(members) == [object |-> TRUE, members |-> members]

JsonNumber == [object |-> FALSE]

(* entry.get(key, default) *)
Get(entry, key, default) ==
    IF key \in DOMAIN entry.members THEN entry.members[key] ELSE default

(* The columns an INSERT of the migration takes from entry.get(key) without
   a default, all of them NOT NULL in the schema. *)
WeightliftColumns == {"movement", "weight", "unit", "date"}

BenchmarkColumns == {"workout", "time_minutes", "time_seconds", "date"}

(* The exception the loop body raises on an item, "" when the row is
   inserted: entry.get on a value that is no object, a NOT NULL column left
   without a value, a foreign key that fails. *)
InsertRaises(user_id, item, columns) ==
    IF ~item.object THEN "AttributeError"
    ELSE IF ~(columns \subseteq DOMAIN item.members) THEN "IntegrityError"
    ELSE IF ForeignKeyFails(user_id) THEN "IntegrityError"
    ELSE ""

(* One category of the migration: the entries it inserts and the exception
   that leaves the function, "" when none does.  The except clause takes
   json.JSONDecodeError and IOError and nothing else. *)
MigrateSource(user_id, source, columns) ==
    CASE source.kind \in {"missing", "IOError", "JSONDecodeError"} ->
            [raised |-> "", entries |-> << >>]
      [] source.kind = "UnicodeDecodeError" ->
            [raised |-> "UnicodeDecodeError", entries |-> << >>]
      [] source.kind = "json" /\ ~source.array ->
            [raised |-> "TypeError", entries |-> << >>]
      [] OTHER ->
            LET bad == {i \in 1..Len(source.items) :
                          InsertRaises(user_id, source.items[i], columns) # ""}
            IN  IF bad = {}
                THEN [raised |-> "", entries |-> source.items]
                ELSE LET first == CHOOSE i \in bad : \A k \in bad : i <= k
                     IN  [raised |-> InsertRaises(user_id, source.items[first],
                                                  columns),
                          entries |-> << >>]

(* The exception that leaves migrate_json_to_db, "" when it returns. *)
migrate_json_to_db_raises(user_id, weightlifts_file, benchmarks_file) ==
    LET w == MigrateSource(user_id, weightlifts_file, WeightliftColumns)
        b == MigrateSource(user_id, benchmarks_file, BenchmarkColumns)
    IN  IF w.raised # "" THEN w.raised ELSE b.raised

(* The two inserts loops and the one commit after them: an exception that
   leaves the function leaves the connection without its commit, and the
   rows inserted up to there are rolled back. *)
migrate_json_to_db(user_id, weightlifts_file, benchmarks_file) ==
    LET w == MigrateSource(user_id, weightlifts_file, WeightliftColumns)
        b == MigrateSource(user_id, benchmarks_file, BenchmarkColumns)
    IN  IF migrate_json_to_db_raises(user_id, weightlifts_file, benchmarks_file) # ""
        THEN UNCHANGED <<weightliftvars, benchmarkvars>>
        ELSE /\ weightlifts_prs' = weightlifts_prs \cup
                    {[id |-> weightlift_seq + i, user_id |-> user_id,
                      movement |-> w.entries[i].members.movement,
                      weight |-> w.entries[i].members.weight,
                      unit |-> w.entries[i].members.unit,
                      date |-> w.entries[i].members.date] :
                        i \in 1..Len(w.entries)}
             /\ weightlift_seq' = weightlift_seq + Len(w.entries)
             /\ benchmarks_prs' = benchmarks_prs \cup
                    {[id |-> benchmark_seq + i, user_id |-> user_id,
                      workout |-> b.entries[i].members.workout,
                      time_minutes |-> b.entries[i].members.time_minutes,
                      time_seconds |-> b.entries[i].members.time_seconds,
                      rounds |-> Get(b.entries[i], "rounds", 0),
                      reps |-> Get(b.entries[i], "reps", 0),
                      date |-> b.entries[i].members.date] :
                        i \in 1..Len(b.entries)}
             /\ benchmark_seq' = benchmark_seq + Len(b.entries)

(* What migrate_json_to_db returns: (weightlifts_count, benchmarks_count),
   unless an exception leaves it. *)
migrate_json_to_db_result(user_id, weightlifts_file, benchmarks_file) ==
    LET w == MigrateSource(user_id, weightlifts_file, WeightliftColumns)
        b == MigrateSource(user_id, benchmarks_file, BenchmarkColumns)
        raised == migrate_json_to_db_raises(user_id, weightlifts_file,
                                            benchmarks_file)
    IN  IF raised # ""
        THEN [raised |-> raised]
        ELSE [weightlifts_count |-> Len(w.entries),
              benchmarks_count |-> Len(b.entries)]

-----------------------------------------------------------------------------
(* migrate_json_to_db called with any owner and any two source files. *)

WeightliftEntry ==
    JsonObject([movement |-> "Back Squat", weight |-> 1, unit |-> "lbs",
                date |-> 0, user_id |-> 2])

WeightliftEntryNoWeight ==
    JsonObject([movement |-> "Back Squat", unit |-> "lbs", date |-> 0])

BenchmarkEntry ==
    JsonObject([workout |-> "Fran", time_minutes |-> 1, time_seconds |-> 0,
                date |-> 0])

BenchmarkEntryNoTime == JsonObject([workout |-> "Fran", date |-> 0])

(* n times the entry *)
Repeat(entry, n) == [i \in 1..n |-> entry]

(* The files tried: the four that hold no JSON value, a value that is no
   array, arrays of well-formed entries, such an array with an entry that
   lacks a column at its end, and an array of a number. *)
SourceFiles(entry, incomplete) ==
    {NoFile, CannotOpen, BadSyntax, BadBytes, JsonNull,
     JsonArray(<<JsonNumber>>)}
        \cup {JsonArray(Repeat(entry, n)) : n \in 0..MaxEntries}
        \cup {JsonArray(Append(Repeat(entry, n), incomplete)) :
                n \in 0..(MaxEntries - 1)}

WeightliftFiles == SourceFiles(WeightliftEntry, WeightliftEntryNoWeight)

BenchmarkFiles == SourceFiles(BenchmarkEntry, BenchmarkEntryNoTime)

(* The entries of a file, none when it holds no array. *)
EntriesOf(source) ==
    IF source.kind = "json" /\ source.array THEN source.items ELSE << >>

CallMigrate ==
    \E user_id \in OwnerIds, weightlifts_file \in WeightliftFiles,
       benchmarks_file \in BenchmarkFiles :
        /\ weightlift_seq + benchmark_seq + Len(EntriesOf(weightlifts_file))
              + Len(EntriesOf(benchmarks_file)) <= MaxMigrated
        /\ migrate_json_to_db(user_id, weightlifts_file, benchmarks_file)
        /\ ret' = migrate_json_to_db_result(user_id, weightlifts_file,
                                            benchmarks_file)
        /\ call' = [fn |-> "migrate_json_to_db", user_id |-> user_id,
                    weightlifts_file |-> weightlifts_file,
                    benchmarks_file |-> benchmarks_file]
        /\ UNCHANGED <<uservars, now, foreign_keys, appvars>>

NextMigrate == CallMigrate

SpecMigrate == InitRecords /\ [][NextMigrate]_vars

(* A source that is unreadable or malformed: it cannot be opened, is not
   JSON text, or is JSON that is no array of entries with the columns of
   the table. *)
Malformed(source, columns) ==
    \/ source.kind \in {"IOError", "JSONDecodeError", "UnicodeDecodeError"}
    \/ /\ source.kind = "json"
       /\ \/ ~source.array
          \/ \E i \in 1..Len(source.items) :
                \/ ~source.items[i].object
                \/ ~(columns \subseteq DOMAIN source.items[i].members)

(* C20: a call of migrate_json_to_db removes no record, adds records only
   under the owner id it is given, and returns for each category the number
   of rows it added to that category's table; a category whose source is
   malformed or unreadable gets no row, and the other category, when its
   source is well-formed, still gets all its entries. *)
C20_MigrationCountsAndIsolatesCategories ==
    [][call'.fn = "migrate_json_to_db"
          => LET addedW == weightlifts_prs' \ weightlifts_prs
                 addedB == benchmarks_prs' \ benchmarks_prs
                 W == call'.weightlifts_file
                 B == call'.benchmarks_file
             IN  /\ weightlifts_prs \subseteq weightlifts_prs'
                 /\ benchmarks_prs \subseteq benchmarks_prs'
                 /\ \A r \in addedW : r.user_id = call'.user_id
                 /\ \A r \in addedB : r.user_id = call'.user_id
                 /\ ret' = [weightlifts_count |-> Cardinality(addedW),
                            benchmarks_count |-> Cardinality(addedB)]
                 /\ Malformed(W, WeightliftColumns) => addedW = {}
                 /\ Malformed(B, BenchmarkColumns) => addedB = {}
                 /\ ~Malformed(W, WeightliftColumns)
                       => Cardinality(addedW) = Len(EntriesOf(W))
                 /\ ~Malformed(B, BenchmarkColumns)
                       => Cardinality(addedB) = Len(EntriesOf(B))
      ]_vars

-----------------------------------------------------------------------------
(* C21: a submission of the weightlift form with a weight that is not
   positive, and a submission of the benchmark form with minutes, seconds
   and rounds all 0, leave both record tables as they were: a step that
   changes a record table is no such submission. *)
C21_InvalidSubmissionRejected ==
    [][<<weightlifts_prs, benchmarks_prs>>' # <<weightlifts_prs, benchmarks_prs>>
          => \A s \in Sessions :
                \A user_id \in user_id_for_add(s) :
                   /\ \A movement \in FormMovements, weight \in FormWeights :
                         weight <= 0
                            => ~SubmitWeightliftWith(s, user_id, movement, weight)
                   /\ \A workout \in FormWorkouts :
                         ~SubmitBenchmarkWith(s, user_id, workout, 0, 0, 0)
      ]_vars

(* C21 witness: a session that is shown both forms (it is logged in, not a
   coach, and its tabs render) has run an interaction to its end, while both
   tables hold a record. *)
C21_Witness ==
    /\ \E s \in Sessions :
          /\ RunsTabs(s)
          /\ ~is_coach(s)
          /\ pc[s] = "start"
          /\ user_id_for_add(s) # {}
    /\ weightlifts_prs # {}
    /\ benchmarks_prs # {}

-----------------------------------------------------------------------------
(* The current-PR functions of src/db.py, called for any owner between adds
   and deletes of records of two movements and two workouts. *)

(* The rows added to the two record tables in all. *)
MaxPrRows == 2

PrsAddWeightlift ==
    /\ weightlift_seq + benchmark_seq < MaxPrRows
    /\ \E user_id \in OwnerIds, movement \in WEIGHTLIFTS, weight \in Weights :
          add_weightlift_pr(user_id, movement, weight, "lbs")
    /\ ret' = RetNone
    /\ call' = NoCall
    /\ UNCHANGED <<uservars, benchmarkvars, now, foreign_keys, appvars>>

PrsAddBenchmark ==
    /\ weightlift_seq + benchmark_seq < MaxPrRows
    /\ \E user_id \in OwnerIds, workout \in BENCHMARK_WORKOUTS,
          time_minutes \in Minutes :
          add_benchmark_pr(user_id, workout, time_minutes, 0, 0, 0)
    /\ ret' = RetNone
    /\ call' = NoCall
    /\ UNCHANGED <<uservars, weightliftvars, now, foreign_keys, appvars>>

PrsDeleteWeightlift ==
    /\ \E pr_id \in 1..MaxPrRows, user_id \in CallerIds, as_admin \in BOOLEAN :
          delete_weightlift_pr(pr_id, user_id, as_admin)
    /\ ret' = RetNone
    /\ call' = NoCall
    /\ UNCHANGED <<uservars, benchmarkvars, now, foreign_keys, appvars>>

PrsDeleteBenchmark ==
    /\ \E pr_id \in 1..MaxPrRows, user_id \in CallerIds, as_admin \in BOOLEAN :
          delete_benchmark_pr(pr_id, user_id, as_admin)
    /\ ret' = RetNone
    /\ call' = NoCall
    /\ UNCHANGED <<uservars, weightliftvars, now, foreign_keys, appvars>>

(* Both functions only read, through get_weightlifts_by_user and
   get_benchmarks_by_user; what they return is recorded. *)
CallCurrentPrsWeightlifts ==
    /\ \E user_id \in OwnerIds : \E prs \in get_current_prs_weightlifts(user_id) :
          /\ ret' = [prs |-> prs]
          /\ call' = [fn |-> "get_current_prs_weightlifts", user_id |-> user_id]
    /\ UNCHANGED <<dbvars, now, foreign_keys, appvars>>

CallCurrentPrsBenchmarks ==
    /\ \E user_id \in OwnerIds : \E prs \in get_current_prs_benchmarks(user_id) :
          /\ ret' = [prs |-> prs]
          /\ call' = [fn |-> "get_current_prs_benchmarks", user_id |-> user_id]
    /\ UNCHANGED <<dbvars, now, foreign_keys, appvars>>

NextCurrentPrs ==
    \/ PrsAddWeightlift
    \/ PrsAddBenchmark
    \/ PrsDeleteWeightlift
    \/ PrsDeleteBenchmark
    \/ CallCurrentPrsWeightlifts
    \/ CallCurrentPrsBenchmarks

SpecCurrentPrs == InitRecords /\ [][NextCurrentPrs]_vars

(* C22: a call of get_current_prs_weightlifts or get_current_prs_benchmarks
   changes no table, and what it returns has exactly one entry for every
   movement (workout) of which the owner has a stored record and no other
   entry, each entry being a record the table holds for that owner and that
   movement (workout); so no deleted record is returned. *)
C22_CurrentPrsReadStoredRecords ==
    [][/\ call'.fn = "get_current_prs_weightlifts"
            => /\ UNCHANGED dbvars
               /\ DOMAIN ret'.prs = {r.movement : r \in
                      {x \in weightlifts_prs : x.user_id = call'.user_id}}
               /\ \A movement \in DOMAIN ret'.prs :
                     /\ ret'.prs[movement] \in weightlifts_prs
                     /\ ret'.prs[movement].user_id = call'.user_id
                     /\ ret'.prs[movement].movement = movement
       /\ call'.fn = "get_current_prs_benchmarks"
            => /\ UNCHANGED dbvars
               /\ DOMAIN ret'.prs = {r.workout : r \in
                      {x \in benchmarks_prs : x.user_id = call'.user_id}}
               /\ \A workout \in DOMAIN ret'.prs :
                     /\ ret'.prs[workout] \in benchmarks_prs
                     /\ ret'.prs[workout].user_id = call'.user_id
                     /\ ret'.prs[workout].workout = workout
      ]_vars

(* C22 witness: after an add and a delete, the current PRs of an owner have
   been returned with an entry, while the other owner holds a record too. *)
C22_Witness ==
    /\ call.fn \in {"get_current_prs_weightlifts", "get_current_prs_benchmarks"}
    /\ ret.prs # EmptyDict
    /\ Cardinality(weightlifts_prs) + Cardinality(benchmarks_prs)
          < weightlift_seq + benchmark_seq
    /\ \E r \in StoredRecords : r.user_id = call.user_id

-----------------------------------------------------------------------------
(* The role the users table holds now for the identity of session s, NoRole
   when the session has no identity or its user has been deleted. *)
StoredRole(s) ==
    LET user == get_user_by_id(get_current_user_id(s))
    IN  IF user = None THEN NoRole ELSE user.role

(* C23: the decisions of a logged-in session follow the role the users table
   holds for its user at the time: a session whose user is not stored as an
   administrator manages no account and deletes no record of another owner,
   and a session whose user is stored neither as coach nor as administrator
   is shown no record of another owner. *)
C23_DecisionsUseStoredRole ==
    [][\A s \in Sessions :
          /\ (is_authenticated(s) /\ StoredRole(s) # "admin")
                => /\ (users' # users /\ AccountsManaged)
                         => ~(UpdateRole(s) \/ DeleteUser(s) \/ CreateUser(s))
                   /\ (\E r \in RecordsRemoved :
                           r.user_id # get_current_user_id(s))
                         => ~(DeleteWeightlift(s) \/ DeleteBenchmark(s))
          /\ (is_authenticated(s) /\ StoredRole(s) \notin {"coach", "admin"})
                => \A e \in Shown(s) : e.user_id = get_current_user_id(s)
      ]_vars

-----------------------------------------------------------------------------
(* C24: once the startup has created the default administrator, the users
   table holds at least one user of role admin in every state, whatever
   roles are changed and whatever users are deleted from any session. *)
C24_AlwaysAnAdministrator ==
    user_seq > 0 => \E u \in users : u.role = "admin"

-----------------------------------------------------------------------------
(* Users created and deleted while records are added under the ids that
   have been assigned, those of deleted users included: a session stays
   logged in after its user is deleted and goes on recording. *)

IdsCreateUser ==
    /\ \E username \in Usernames, password_hash \in hash_password("pass") :
          /\ user_seq < MaxUserId \/ UsernameTaken(username)
          /\ create_user(username, password_hash, "user", NoName)
          /\ ret' = create_user_result(username)
          /\ call' = [fn |-> "create_user", username |-> username]
    /\ UNCHANGED <<weightliftvars, benchmarkvars, now, foreign_keys, appvars>>

IdsDeleteUser ==
    /\ \E user_id \in UserIds :
          /\ delete_user(user_id)
          /\ ret' = RetBool(TRUE)
          /\ call' = [fn |-> "delete_user", user_id |-> user_id]
    /\ UNCHANGED <<now, foreign_keys, appvars>>

IdsAddWeightlift ==
    /\ weightlift_seq + benchmark_seq < MaxRecords
    /\ \E user_id \in 1..user_seq :
          /\ add_weightlift_pr(user_id, "Back Squat", 1, "lbs")
          /\ ret' = RetBool(add_pr_result(user_id))
          /\ call' = [fn |-> "add_weightlift_pr", user_id |-> user_id]
    /\ UNCHANGED <<uservars, benchmarkvars, now, foreign_keys, appvars>>

IdsAddBenchmark ==
    /\ weightlift_seq + benchmark_seq < MaxRecords
    /\ \E user_id \in 1..user_seq :
          /\ add_benchmark_pr(user_id, "Fran", 1, 0, 0, 0)
          /\ ret' = RetBool(add_pr_result(user_id))
          /\ call' = [fn |-> "add_benchmark_pr", user_id |-> user_id]
    /\ UNCHANGED <<uservars, weightliftvars, now, foreign_keys, appvars>>

NextUserIds ==
    \/ IdsCreateUser
    \/ IdsDeleteUser
    \/ IdsAddWeightlift
    \/ IdsAddBenchmark

SpecUserIds == InitDb /\ [][NextUserIds]_vars

(* C25: a user a step creates has an id that no user was given before (the
   ids given so far are 1..user_seq), and get_weightlifts_by_user and
   get_benchmarks_by_user of that id are empty right after the creation. *)
C25_UserIdsNeverReused ==
    [][\A v \in users' :
          v.id \notin {u.id : u \in users}
              => /\ v.id \notin 1..user_seq
                 /\ \A data \in get_weightlifts_by_user(v.id)' : data = << >>
                 /\ \A data \in get_benchmarks_by_user(v.id)' : data = << >>
      ]_vars

(* C25 witness: the last call created a user, after a user with a smaller id
   was deleted whose record is still stored. *)
C25_Witness ==
    /\ call.fn = "create_user"
    /\ ret = RetId(user_seq)
    /\ \E u \in users : u.id = user_seq
    /\ \E i \in DeletedUserIds : \E r \in StoredRecords : r.user_id = i

=============================================================================
